---- MODULE Spec2Model ----
(***************************************************************************)
(* Model of the analytical core of germany-public-transport-analytics:     *)
(*   - generate_synthetic_delays.py : time_to_seconds, generate_delays and  *)
(*     its nested add_delay_to_time                                         *)
(*   - gtfs_processing.py           : compute_headway_stats                 *)
(*   - build_kpi_tables.py          : build_delay_route_kpis                *)
(* Strings are sequences of one-character strings, so that parsing and      *)
(* formatting are computed and not assumed.  Floating-point minutes are     *)
(* kept exactly: normal variates in tenths of a minute, averages and shares *)
(* as <<numerator, denominator>> pairs.                                     *)
(***************************************************************************)
EXTENDS Integers, Sequences, FiniteSets, TLC

VARIABLES
    task,            \* which entry point this run exercises
    pc,              \* position inside the entry point
    status,          \* "running", "ok" (returned) or "error" (raised)
    df,              \* rows returned by the stop_times/trips query
    seed,            \* generate_delays(seed=...)
    rng,             \* state of the generator created by default_rng(seed)
    categories,      \* generate_delays: categories array
    delays,          \* generate_delays: delays array, tenths of a minute
    delay_min,       \* generate_delays: df["delay_min"]
    reasons,         \* generate_delays: reasons list
    drawLog,         \* history: the draws taken from rng, in order
    df_out,          \* generate_delays: returned frame
    run,             \* 1 for the first call, 2 for the repeated call
    first_out,       \* frame returned by the first call
    arrival_sec,     \* compute_headway_stats: df["arrival_sec"]
    headways,        \* compute_headway_stats: rows left after dropna
    headway_stats,   \* compute_headway_stats: returned frame
    tables,          \* build_delay_route_kpis: the SQLite tables read
    df_delay_route,  \* build_delay_route_kpis: returned frame
    t_str,           \* add_delay_to_time argument
    delay_minutes,   \* add_delay_to_time argument
    sec_actual,      \* seconds value handed to the HH:MM:SS formatting
    rendered,        \* the formatted string
    parsed           \* time_to_seconds(rendered)

vars == <<task, pc, status, df, seed, rng, categories, delays, delay_min,
          reasons, drawLog, df_out, run, first_out, arrival_sec, headways,
          headway_stats, tables, df_delay_route, t_str, delay_minutes,
          sec_actual, rendered, parsed>>

synthVars == <<seed, rng, categories, delays, delay_min, reasons, drawLog,
               df_out, run, first_out>>
headwayVars == <<arrival_sec, headways, headway_stats>>
kpiVars == <<tables, df_delay_route>>
codecVars == <<t_str, delay_minutes, sec_actual, rendered, parsed>>

(***************************************************************************)
(* Bounds of the model.                                                    *)
(***************************************************************************)
MaxSynthEvents == 2
MaxHeadwayEvents == 3
MaxDelayRows == 3
MaxSeed == 255
MaxHour == 100
MaxDelayArg == 12

(***************************************************************************)
(* Generic helpers.                                                        *)
(***************************************************************************)
Max(a, b) == IF a >= b THEN a ELSE b

RECURSIVE SumSeq(_)
SumSeq(s) == IF s = <<>> THEN 0 ELSE Head(s) + SumSeq(Tail(s))

RECURSIVE SeqsUpTo(_, _)
SeqsUpTo(S, n) ==
    IF n = 0 THEN {<<>>}
    ELSE LET shorter == SeqsUpTo(S, n - 1)
         IN  shorter \cup {Append(q, x) : q \in {r \in shorter : Len(r) = n - 1}, x \in S}

(***************************************************************************)
(* Time codec.                                                             *)
(***************************************************************************)
Digits == <<"0", "1", "2", "3", "4", "5", "6", "7", "8", "9">>

IsDigit(c) == \E i \in 1..10 : Digits[i] = c

DigitVal(c) == (CHOOSE i \in 1..10 : Digits[i] = c) - 1

\* str.split(":"): the fields between the separators, at least one field.
RECURSIVE Split(_, _)
Split(s, sep) ==
    IF \A i \in 1..Len(s) : s[i] # sep THEN <<s>>
    ELSE LET k == CHOOSE i \in 1..Len(s) :
                      s[i] = sep /\ \A j \in 1..(i - 1) : s[j] # sep
         IN  <<SubSeq(s, 1, k - 1)>> \o Split(SubSeq(s, k + 1, Len(s)), sep)

RECURSIVE DigitsValue(_)
DigitsValue(f) ==
    IF f = <<>> THEN 0
    ELSE DigitsValue(SubSeq(f, 1, Len(f) - 1)) * 10 + DigitVal(f[Len(f)])

\* int(x) accepts an optional sign followed by decimal digits.
IsIntLiteral(f) ==
    LET body == IF f # <<>> /\ Head(f) \in {"-", "+"} THEN Tail(f) ELSE f
    IN  body # <<>> /\ \A i \in 1..Len(body) : IsDigit(body[i])

ParseInt(f) ==
    IF Head(f) = "-" THEN 0 - DigitsValue(Tail(f))
    ELSE IF Head(f) = "+" THEN DigitsValue(Tail(f))
    ELSE DigitsValue(f)

\* h, m, s = map(int, str(t).split(":")); return h * 3600 + m * 60 + s
\* A ValueError (field count or int()) is the result with ok = FALSE.
time_to_seconds_skipping(t) ==
    LET fields == Split(t, ":")
    IN  IF Len(fields) = 3 /\ \A i \in 1..3 : IsIntLiteral(fields[i])
        THEN [ok |-> TRUE,
              val |-> ParseInt(fields[1]) * 3600 + ParseInt(fields[2]) * 60
                      + ParseInt(fields[3])]
        ELSE [ok |-> TRUE, val |-> 0]

time_to_seconds(t) ==
    LET fields == Split(t, ":")
    IN  IF Len(fields) = 3 /\ \A i \in 1..3 : IsIntLiteral(fields[i])
        THEN [ok |-> TRUE,
              val |-> ParseInt(fields[1]) * 3600 + ParseInt(fields[2]) * 60
                      + ParseInt(fields[3])]
        ELSE [ok |-> FALSE, val |-> 0]

RECURSIVE NatDigits(_)
NatDigits(n) ==
    IF n < 10 THEN <<Digits[n + 1]>>
    ELSE Append(NatDigits(n \div 10), Digits[(n % 10) + 1])

\* format(n, "02d"): sign, then the digits zero-padded to a total width of 2.
Fmt02d(n) ==
    LET d == NatDigits(IF n < 0 THEN 0 - n ELSE n)
    IN  IF n < 0 THEN <<"-">> \o d
        ELSE IF Len(d) < 2 THEN <<"0">> \o d ELSE d

\* The formatting step of add_delay_to_time.
FormatHMS_mod24(sec) ==
    LET h == (sec \div 3600) % 24
        m == (sec % 3600) \div 60
        s == sec % 60
    IN  Fmt02d(h) \o <<":">> \o Fmt02d(m) \o <<":">> \o Fmt02d(s)

FormatHMS(sec) ==
    LET h == sec \div 3600
        m == (sec % 3600) \div 60
        s == sec % 60
    IN  Fmt02d(h) \o <<":">> \o Fmt02d(m) \o <<":">> \o Fmt02d(s)

ClampAtZero_none(sec) == sec

ClampAtZero(sec) == IF sec < 0 THEN 0 ELSE sec

add_delay_to_time(t, d) ==
    LET sec == time_to_seconds(t)
    IN  IF ~sec.ok THEN [ok |-> FALSE, val |-> <<>>]
        ELSE [ok |-> TRUE, val |-> FormatHMS(ClampAtZero(sec.val + d * 60))]

(***************************************************************************)
(* Sorting: a stable sort of <<key, row>> pairs by integer-tuple keys, as   *)
(* DataFrame.sort_values does over several columns.                         *)
(***************************************************************************)
RECURSIVE KeyLess(_, _)
KeyLess(a, b) ==
    IF a = <<>> \/ b = <<>> THEN FALSE
    ELSE IF Head(a) # Head(b) THEN Head(a) < Head(b)
    ELSE KeyLess(Tail(a), Tail(b))

\* Insert p after every element whose key is not greater (stability).
RECURSIVE InsertStable(_, _)
InsertStable(sorted, p) ==
    IF sorted = <<>> THEN <<p>>
    ELSE IF KeyLess(p[1], Head(sorted)[1]) THEN <<p>> \o sorted
    ELSE <<Head(sorted)>> \o InsertStable(Tail(sorted), p)

RECURSIVE StableSort(_)
StableSort(pairs) ==
    IF pairs = <<>> THEN <<>>
    ELSE InsertStable(StableSort(SubSeq(pairs, 1, Len(pairs) - 1)), pairs[Len(pairs)])

\* keys[i] is the tuple of sort-column values of rows[i].
sort_values(rows, keys) ==
    LET sorted == StableSort([i \in 1..Len(rows) |-> <<keys[i], rows[i]>>])
    IN  [i \in 1..Len(rows) |-> sorted[i][2]]

(***************************************************************************)
(* Inputs: the time strings and the rows the stop_times/trips query can     *)
(* return.  Identifiers are numbered so that their order is defined.        *)
(***************************************************************************)
T_000000 == <<"0", "0", ":", "0", "0", ":", "0", "0">>
T_000200 == <<"0", "0", ":", "0", "2", ":", "0", "0">>
T_001000 == <<"0", "0", ":", "1", "0", ":", "0", "0">>
T_002500 == <<"0", "0", ":", "2", "5", ":", "0", "0">>
T_251000 == <<"2", "5", ":", "1", "0", ":", "0", "0">>
T_TwoFields == <<"1", "2", ":", "0", "0">>
T_NotDigits == <<"0", "a", ":", "0", "0", ":", "0", "0">>
T_FourFields == <<"0", "1", ":", "0", "2", ":", "0", "3", ":", "0", "4">>

Row(trip, stop, time, route) ==
    [trip_id |-> trip, stop_id |-> stop, arrival_time |-> time, route_id |-> route]

SynthRows ==
    { Row(2, 1, T_000200, 2), Row(1, 2, T_251000, 1), Row(1, 2, T_000200, 1),
      Row(1, 1, T_TwoFields, 1) }

(***************************************************************************)
(* The seeded generator.  numpy's PCG64 is abstracted to a full-period      *)
(* congruential generator: what the model keeps is that every draw is a     *)
(* function of the generator state and advances it.                         *)
(***************************************************************************)
RngModulus == 256
RngMultiplier == 197
RngIncrement == 113

default_rng_ambient(s) == rng

default_rng(s) == s % RngModulus

rng_next(g) == (RngMultiplier * g + RngIncrement) % RngModulus

RECURSIVE rng_skip(_, _)
rng_skip(g, k) == IF k = 0 THEN g ELSE rng_skip(rng_next(g), k - 1)

\* Generator.choice(..., p=p): cdf.searchsorted(uniform, side="right").
CategoryNames == <<"on_time", "small_delay", "big_delay", "early">>
CategoryCdf == <<60, 85, 95, 100>>

rng_choice_p(g) ==
    CategoryNames[Cardinality({k \in 1..4 : CategoryCdf[k] * RngModulus <= g * 100}) + 1]

\* Generator.normal(0.0, 1.0), in tenths of a minute.
MaxNormalTenths == 40

rng_normal(g) == ((g * (2 * MaxNormalTenths + 1)) \div RngModulus) - MaxNormalTenths

\* Generator.integers(low, high): uniform in low..high-1.
rng_integers(g, low, high) == low + (g * (high - low)) \div RngModulus

\* np.clip(x, lo, hi) applied to one element (tenths of a minute).
np_clip_none(x, lo, hi) == x

np_clip(x, lo, hi) == IF x < lo THEN lo ELSE IF x > hi THEN hi ELSE x

\* ndarray.round(0) applied to one element: round half to even.
np_round(x) ==
    LET q == x \div 10
        r == x % 10
    IN  IF r < 5 THEN q
        ELSE IF r > 5 THEN q + 1
        ELSE IF q % 2 = 0 THEN q ELSE q + 1

reason_choices_shared(cat) ==
    <<"on_time", "vehicle_late", "connection_wait">>

reason_choices(cat) ==
    CASE cat = "on_time" -> <<"on_time">>
      [] cat = "small_delay" -> <<"vehicle_late", "connection_wait">>
      [] cat = "big_delay" -> <<"signal_failure", "infrastructure_issue", "congestion">>
      [] cat = "early" -> <<"early_departure">>

\* The positions a boolean mask (categories == cat) selects, in array order.
RECURSIVE MaskIndices_reversed(_, _)
MaskIndices_reversed(cats, cat) ==
    IF cats = <<>> THEN <<>>
    ELSE LET n == Len(cats)
             rest == MaskIndices_reversed(SubSeq(cats, 1, n - 1), cat)
         IN  IF cats[n] = cat THEN <<n>> \o rest ELSE rest

RECURSIVE MaskIndices(_, _)
MaskIndices(cats, cat) ==
    IF cats = <<>> THEN <<>>
    ELSE LET n == Len(cats)
             rest == MaskIndices(SubSeq(cats, 1, n - 1), cat)
         IN  IF cats[n] = cat THEN Append(rest, n) ELSE rest

\* delays[mask] = values: the k-th selected position takes the k-th value.
MaskedAssign(arr, idx, values) ==
    [i \in 1..Len(arr) |->
        IF \E k \in 1..Len(idx) : idx[k] = i
        THEN values[CHOOSE k \in 1..Len(idx) : idx[k] = i]
        ELSE arr[i]]

DrawEntries(idx, kind) == [k \in 1..Len(idx) |-> [event |-> idx[k], kind |-> kind]]

(***************************************************************************)
(* generate_delays, statement by statement.                                *)
(***************************************************************************)
ServiceDate == 20251101

IsSynth == task = "generate_delays"

\* if df.empty: raise RuntimeError; else service_date, planned_arrival, rng.
SynthStart ==
    /\ IsSynth /\ pc = "start"
    /\ IF df = <<>>
       THEN /\ status' = "error"
            /\ pc' = "done"
            /\ rng' = rng
       ELSE /\ rng' = default_rng(seed)
            /\ pc' = "categories"
            /\ status' = status
    /\ UNCHANGED <<task, df, seed, categories, delays, delay_min, reasons, drawLog,
                   df_out, run, first_out, headwayVars, kpiVars, codecVars>>

\* categories = rng.choice([...], size=n, p=[0.6, 0.25, 0.1, 0.05])
\* delays = np.zeros(n)
DrawCategories ==
    /\ IsSynth /\ pc = "categories"
    /\ LET n == Len(df)
       IN  /\ categories' = [i \in 1..n |-> rng_choice_p(rng_skip(rng, i - 1))]
           /\ rng' = rng_skip(rng, n)
           /\ delays' = [i \in 1..n |-> 0]
           /\ drawLog' = drawLog \o [i \in 1..n |-> [event |-> i, kind |-> "category"]]
    /\ pc' = "on_time"
    /\ UNCHANGED <<task, status, df, seed, delay_min, reasons, df_out, run, first_out,
                   headwayVars, kpiVars, codecVars>>

\* One masked magnitude batch: Value(g) turns a generator state into the
\* stored element (tenths of a minute).
OnTimeValue(g) == np_clip(rng_normal(g), -20, 30)
SmallValue(g) == 10 * rng_integers(g, 1, 6)
BigValue(g) == 10 * rng_integers(g, 5, 21)
EarlyValue(g) == 0 - 10 * rng_integers(g, 1, 6)

MagnitudeValue(cat, g) ==
    CASE cat = "on_time" -> OnTimeValue(g)
      [] cat = "small_delay" -> SmallValue(g)
      [] cat = "big_delay" -> BigValue(g)
      [] cat = "early" -> EarlyValue(g)

DrawMagnitudes(cat, next) ==
    /\ IsSynth /\ pc = cat
    /\ LET idx == MaskIndices(categories, cat)
           values == [k \in 1..Len(idx) |-> MagnitudeValue(cat, rng_skip(rng, k - 1))]
       IN  /\ delays' = MaskedAssign(delays, idx, values)
           /\ rng' = rng_skip(rng, Len(idx))
           /\ drawLog' = drawLog \o DrawEntries(idx, "magnitude")
    /\ pc' = next
    /\ UNCHANGED <<task, status, df, seed, categories, delay_min, reasons, df_out,
                   run, first_out, headwayVars, kpiVars, codecVars>>

DrawOnTime == DrawMagnitudes("on_time", "small_delay")
DrawSmall == DrawMagnitudes("small_delay", "big_delay")
DrawBig == DrawMagnitudes("big_delay", "early")
DrawEarly == DrawMagnitudes("early", "round")

\* df["delay_min"] = delays.round(0).astype(int)
RoundDelays ==
    /\ IsSynth /\ pc = "round"
    /\ delay_min' = [i \in 1..Len(delays) |-> np_round(delays[i])]
    /\ pc' = "reasons"
    /\ UNCHANGED <<task, status, df, seed, rng, categories, delays, reasons, drawLog,
                   df_out, run, first_out, headwayVars, kpiVars, codecVars>>

\* for cat in categories: reasons.append(rng.choice(reason_choices[cat]))
\* Generator.choice over k items is integers(0, k); a range of one value
\* returns it without advancing the generator.
RECURSIVE ReasonLoop(_, _, _)
ReasonLoop(cats, g, acc) ==
    IF cats = <<>> THEN [reasons |-> acc, rng |-> g]
    ELSE LET choices == reason_choices(Head(cats))
             k == Len(choices)
             pick == choices[rng_integers(g, 0, k) + 1]
         IN  ReasonLoop(Tail(cats), IF k = 1 THEN g ELSE rng_next(g), Append(acc, pick))

DrawReasons ==
    /\ IsSynth /\ pc = "reasons"
    /\ LET r == ReasonLoop(categories, rng, <<>>)
       IN  /\ reasons' = r.reasons
           /\ rng' = r.rng
    /\ drawLog' = drawLog \o [i \in 1..Len(categories) |-> [event |-> i, kind |-> "reason"]]
    /\ pc' = "actual"
    /\ UNCHANGED <<task, status, df, seed, categories, delays, delay_min, df_out,
                   run, first_out, headwayVars, kpiVars, codecVars>>

OutRow(i, actual) ==
    [service_date |-> ServiceDate,
     trip_id |-> df[i].trip_id,
     stop_id |-> df[i].stop_id,
     route_id |-> df[i].route_id,
     planned_arrival |-> df[i].arrival_time,
     actual_arrival |-> actual,
     delay_min |-> delay_min[i],
     reason |-> reasons[i]]

OutKey(r) == <<r.service_date, r.route_id, r.trip_id, r.stop_id>>

\* df["actual_arrival"] = [add_delay_to_time(t, d) for ...]; a malformed
\* planned_arrival raises out of generate_delays.  Then the column
\* selection, sort_values([...]) and return.
ComputeActualAndReturn ==
    /\ IsSynth /\ pc = "actual"
    /\ LET n == Len(df)
           actual == [i \in 1..n |-> add_delay_to_time(df[i].arrival_time, delay_min[i])]
       IN  IF \E i \in 1..n : ~actual[i].ok
           THEN /\ status' = "error"
                /\ df_out' = df_out
           ELSE LET rows == [i \in 1..n |-> OutRow(i, actual[i].val)]
                IN  /\ df_out' = sort_values(rows, [i \in 1..n |-> OutKey(rows[i])])
                    /\ status' = "ok"
    /\ pc' = "done"
    /\ UNCHANGED <<task, df, seed, rng, categories, delays, delay_min, reasons, drawLog,
                   run, first_out, headwayVars, kpiVars, codecVars>>

\* A second call of generate_delays on the same sample with the same seed.
CallAgain ==
    /\ IsSynth /\ pc = "done" /\ status = "ok" /\ run = 1
    /\ first_out' = df_out
    /\ run' = 2
    /\ pc' = "start"
    /\ status' = "running"
    /\ categories' = <<>>
    /\ delays' = <<>>
    /\ delay_min' = <<>>
    /\ reasons' = <<>>
    /\ drawLog' = <<>>
    /\ df_out' = <<>>
    /\ UNCHANGED <<task, df, seed, rng, headwayVars, kpiVars, codecVars>>

SynthInit ==
    /\ task = "generate_delays"
    /\ df \in SeqsUpTo(SynthRows, MaxSynthEvents)
    /\ seed \in 0..MaxSeed

(***************************************************************************)
(* compute_headway_stats.                                                  *)
(***************************************************************************)
IsHeadway == task = "compute_headway_stats"

HeadwayRows ==
    { Row(1, g[2], t, g[1]) :
        g \in {<<1, 1>>, <<1, 2>>, <<2, 1>>},
        t \in {T_000000, T_001000, T_002500, T_TwoFields, T_NotDigits} }

\* The nested time_to_seconds of compute_headway_stats.
headway_time_to_seconds_skipping(t) ==
    LET fields == Split(t, ":")
    IN  IF Len(fields) = 3 /\ \A i \in 1..3 : IsIntLiteral(fields[i])
        THEN [ok |-> TRUE,
              val |-> ParseInt(fields[1]) * 3600 + ParseInt(fields[2]) * 60
                      + ParseInt(fields[3])]
        ELSE [ok |-> TRUE, val |-> 0]

headway_time_to_seconds(t) ==
    LET fields == Split(t, ":")
    IN  IF Len(fields) = 3 /\ \A i \in 1..3 : IsIntLiteral(fields[i])
        THEN [ok |-> TRUE,
              val |-> ParseInt(fields[1]) * 3600 + ParseInt(fields[2]) * 60
                      + ParseInt(fields[3])]
        ELSE [ok |-> FALSE, val |-> 0]

\* df["arrival_sec"] = df["arrival_time"].apply(time_to_seconds)
HeadwayConvert ==
    /\ IsHeadway /\ pc = "start"
    /\ LET conv == [i \in 1..Len(df) |-> headway_time_to_seconds(df[i].arrival_time)]
       IN  IF \E i \in 1..Len(df) : ~conv[i].ok
           THEN /\ status' = "error"
                /\ pc' = "done"
                /\ arrival_sec' = arrival_sec
           ELSE /\ arrival_sec' = [i \in 1..Len(df) |-> conv[i].val]
                /\ pc' = "diff"
                /\ status' = status
    /\ UNCHANGED <<task, df, headways, headway_stats, synthVars, kpiVars, codecVars>>

\* groupby(["route_id", "stop_id"])["arrival_sec"].diff(): the difference to
\* the previous row of the same group in frame order, NaN for a group's
\* first row.  rows are [route_id, stop_id, arrival_sec].
SameGroup_route_only(a, b) == a.route_id = b.route_id

SameGroup(a, b) == a.route_id = b.route_id /\ a.stop_id = b.stop_id

HasPrev(rows, i) == \E j \in 1..(i - 1) : SameGroup(rows[j], rows[i])

PrevInGroup(rows, i) ==
    CHOOSE j \in 1..(i - 1) :
        /\ SameGroup(rows[j], rows[i])
        /\ \A k \in (j + 1)..(i - 1) : ~SameGroup(rows[k], rows[i])

RECURSIVE GroupDiffDropna(_, _)
GroupDiffDropna(rows, i) ==
    IF i > Len(rows) THEN <<>>
    ELSE (IF HasPrev(rows, i)
          THEN <<[route_id |-> rows[i].route_id,
                  stop_id |-> rows[i].stop_id,
                  gap_seconds |-> rows[i].arrival_sec
                                  - rows[PrevInGroup(rows, i)].arrival_sec]>>
          ELSE <<>>)
         \o GroupDiffDropna(rows, i + 1)

\* sort_values(["route_id", "stop_id", "arrival_sec"]); headway_min = diff / 60.0;
\* dropna(subset=["headway_min"])
HeadwaySortDiff ==
    /\ IsHeadway /\ pc = "diff"
    /\ LET n == Len(df)
           rows == [i \in 1..n |-> [route_id |-> df[i].route_id,
                                    stop_id |-> df[i].stop_id,
                                    arrival_sec |-> arrival_sec[i]]]
           sorted == sort_values(rows, [i \in 1..n |->
                         <<rows[i].route_id, rows[i].stop_id, rows[i].arrival_sec>>])
       IN  headways' = GroupDiffDropna(sorted, 1)
    /\ pc' = "agg"
    /\ UNCHANGED <<task, status, df, arrival_sec, headway_stats, synthVars, kpiVars,
                   codecVars>>

RECURSIVE SelectRoute(_, _)
SelectRoute(obs, r) ==
    IF obs = <<>> THEN <<>>
    ELSE (IF Head(obs).route_id = r THEN <<Head(obs).gap_seconds>> ELSE <<>>)
         \o SelectRoute(Tail(obs), r)

SortInts(xs) ==
    LET sorted == StableSort([i \in 1..Len(xs) |-> <<<<xs[i]>>, xs[i]>>])
    IN  [i \in 1..Len(xs) |-> sorted[i][2]]

\* One groupby("route_id") row; headway_min values are gap_seconds / 60 and
\* are kept as <<numerator, denominator>>.  A group without values counts 0
\* and has NaN statistics.
HeadwayStatsRow(r, gaps) ==
    LET n == Len(gaps)
        s == SortInts(gaps)
    IN  IF n = 0
        THEN [route_id |-> r, n_headways |-> 0, avg_headway_min |-> "NaN",
              median_headway_min |-> "NaN", min_headway_min |-> "NaN",
              max_headway_min |-> "NaN"]
        ELSE [route_id |-> r,
              n_headways |-> n,
              avg_headway_min |-> <<SumSeq(gaps), 60 * n>>,
              median_headway_min |->
                  IF n % 2 = 1 THEN <<s[(n + 1) \div 2], 60>>
                  ELSE <<s[n \div 2] + s[(n \div 2) + 1], 120>>,
              min_headway_min |-> <<s[1], 60>>,
              max_headway_min |-> <<s[n], 60>>]

\* The route_id values the final groupby sees: those of the rows dropna kept.
GroupedRoutes_all_input(kept, frame) == {frame[i].route_id : i \in 1..Len(frame)}

GroupedRoutes(kept, frame) == {kept[i].route_id : i \in 1..Len(kept)}

\* df.groupby("route_id")["headway_min"].agg([...]).reset_index().rename(...)
HeadwayAggregate ==
    /\ IsHeadway /\ pc = "agg"
    /\ headway_stats' =
           { HeadwayStatsRow(r, SelectRoute(headways, r)) : r \in GroupedRoutes(headways, df) }
    /\ pc' = "done"
    /\ status' = "ok"
    /\ UNCHANGED <<task, df, arrival_sec, headways, synthVars, kpiVars, codecVars>>

HeadwayInit ==
    /\ task = "compute_headway_stats"
    /\ df \in SeqsUpTo(HeadwayRows, MaxHeadwayEvents)
    /\ seed = 0

(***************************************************************************)
(* build_delay_route_kpis.                                                 *)
(***************************************************************************)
IsKpi == task = "build_delay_route_kpis"

DelayRows == { [trip_id |-> t, delay_min |-> d] : t \in 1..3, d \in {0, 5, 6} }

\* trips.txt and routes.txt as loaded: trip_id and route_id are keys.
TripsTables ==
    { { [trip_id |-> 1, route_id |-> 1], [trip_id |-> 2, route_id |-> 1],
        [trip_id |-> 3, route_id |-> 2] },
      { [trip_id |-> 1, route_id |-> 1], [trip_id |-> 2, route_id |-> 2] },
      { [trip_id |-> 1, route_id |-> 1], [trip_id |-> 2, route_id |-> 3],
        [trip_id |-> 3, route_id |-> 2] } }

RouteRow(r) == [route_id |-> r, route_short_name |-> 100 + r, route_long_name |-> 200 + r]

RoutesTables == { {RouteRow(1), RouteRow(2)}, {RouteRow(1), RouteRow(2), RouteRow(3)} }

IsOver5min_inclusive(d) == d >= 5

IsOver5min(d) == d > 5

IsOnTimeOrEarly(d) == d <= 0

\* FROM delays d JOIN trips t ON d.trip_id = t.trip_id
\*               JOIN routes r ON t.route_id = r.route_id
JoinedRows(tb) ==
    { <<i, t, r>> \in (1..Len(tb.delays)) \X tb.trips \X tb.routes :
        tb.delays[i].trip_id = t.trip_id /\ t.route_id = r.route_id }

RECURSIVE SumOver(_, _)
SumOver(S, tb) ==
    IF S = {} THEN 0
    ELSE LET x == CHOOSE y \in S : TRUE
         IN  tb.delays[x[1]].delay_min + SumOver(S \ {x}, tb)

\* One GROUP BY r.route_id, r.route_short_name, r.route_long_name row.
DelayRouteRow(r, joined, tb) ==
    LET grp == {j \in joined : j[3] = r}
        n == Cardinality(grp)
    IN  [route_id |-> r.route_id,
         route_short_name |-> r.route_short_name,
         route_long_name |-> r.route_long_name,
         n_delay_events |-> n,
         avg_delay_min |-> <<SumOver(grp, tb), n>>,
         share_over_5min |->
             <<Cardinality({j \in grp : IsOver5min(tb.delays[j[1]].delay_min)}), n>>,
         share_on_time_or_early |->
             <<Cardinality({j \in grp : IsOnTimeOrEarly(tb.delays[j[1]].delay_min)}), n>>]

\* The whole function: the sqlite_master probe, then the grouped join.
build_delay_route_kpis ==
    /\ IsKpi /\ pc = "start"
    /\ IF ~tables.has_delays
       THEN df_delay_route' = {}
       ELSE LET joined == JoinedRows(tables)
            IN  df_delay_route' =
                    { DelayRouteRow(r, joined, tables) : r \in {j[3] : j \in joined} }
    /\ pc' = "done"
    /\ status' = "ok"
    /\ UNCHANGED <<task, df, tables, synthVars, headwayVars, codecVars>>

NoTables == [has_delays |-> FALSE, delays |-> <<>>, trips |-> {}, routes |-> {}]

KpiInit ==
    /\ task = "build_delay_route_kpis"
    /\ \/ \E tr \in TripsTables, ro \in RoutesTables :
            tables = [has_delays |-> FALSE, delays |-> <<>>, trips |-> tr, routes |-> ro]
       \/ \E d \in SeqsUpTo(DelayRows, MaxDelayRows), tr \in TripsTables, ro \in RoutesTables :
            tables = [has_delays |-> TRUE, delays |-> d, trips |-> tr, routes |-> ro]

(***************************************************************************)
(* add_delay_to_time applied directly, and the format/parse round trip.     *)
(***************************************************************************)
T_000500 == <<"0", "0", ":", "0", "5", ":", "0", "0">>
T_995500 == <<"9", "9", ":", "5", "5", ":", "0", "0">>
T_007530 == <<"0", "0", ":", "7", "5", ":", "3", "0">>
T_Minus013000 == <<"-", "1", ":", "3", "0", ":", "0", "0">>

TimeStrings ==
    { T_000000, T_000200, T_000500, T_001000, T_251000, T_995500, T_007530,
      T_Minus013000, T_TwoFields, T_NotDigits, T_FourFields }

SecondsInputs ==
    { h * 3600 + m * 60 + s :
        h \in {0, 1, 9, 10, 23, 24, 25, 99, MaxHour},
        m \in {0, 9, 10, 59},
        s \in {0, 1, 9, 10, 59} }

IsAddDelay == task = "add_delay_to_time"
IsRoundTrip == task = "round_trip"

ApplyAddDelay ==
    /\ IsAddDelay /\ pc = "start"
    /\ LET r == add_delay_to_time(t_str, delay_minutes)
       IN  IF r.ok
           THEN /\ rendered' = r.val
                /\ status' = "ok"
           ELSE /\ rendered' = rendered
                /\ status' = "error"
    /\ pc' = "done"
    /\ UNCHANGED <<task, df, t_str, delay_minutes, sec_actual, parsed, synthVars,
                   headwayVars, kpiVars>>

\* h = sec_actual // 3600 ... return f"{h:02d}:{m:02d}:{s:02d}"
FormatSeconds ==
    /\ IsRoundTrip /\ pc = "start"
    /\ rendered' = FormatHMS(sec_actual)
    /\ pc' = "parse"
    /\ UNCHANGED <<task, status, df, t_str, delay_minutes, sec_actual, parsed, synthVars,
                   headwayVars, kpiVars>>

ParseRendered ==
    /\ IsRoundTrip /\ pc = "parse"
    /\ LET r == time_to_seconds(rendered)
       IN  IF r.ok
           THEN /\ parsed' = r.val
                /\ status' = "ok"
           ELSE /\ parsed' = parsed
                /\ status' = "error"
    /\ pc' = "done"
    /\ UNCHANGED <<task, df, t_str, delay_minutes, sec_actual, rendered, synthVars,
                   headwayVars, kpiVars>>

AddDelayInit ==
    /\ task = "add_delay_to_time"
    /\ t_str \in TimeStrings
    /\ delay_minutes \in (0 - MaxDelayArg)..MaxDelayArg

RoundTripInit ==
    /\ task = "round_trip"
    /\ sec_actual \in SecondsInputs

(***************************************************************************)
(* The specification.                                                      *)
(***************************************************************************)
Init ==
    /\ pc = "start"
    /\ status = "running"
    /\ rng = 0
    /\ categories = <<>>
    /\ delays = <<>>
    /\ delay_min = <<>>
    /\ reasons = <<>>
    /\ drawLog = <<>>
    /\ df_out = <<>>
    /\ run = 1
    /\ first_out = <<>>
    /\ arrival_sec = <<>>
    /\ headways = <<>>
    /\ headway_stats = {}
    /\ df_delay_route = {}
    /\ rendered = <<>>
    /\ parsed = 0
    /\ \/ SynthInit /\ tables = NoTables /\ t_str = <<>> /\ delay_minutes = 0
          /\ sec_actual = 0
       \/ HeadwayInit /\ tables = NoTables /\ t_str = <<>> /\ delay_minutes = 0
          /\ sec_actual = 0
       \/ KpiInit /\ df = <<>> /\ seed = 0 /\ t_str = <<>> /\ delay_minutes = 0
          /\ sec_actual = 0
       \/ AddDelayInit /\ df = <<>> /\ seed = 0 /\ tables = NoTables /\ sec_actual = 0
       \/ RoundTripInit /\ df = <<>> /\ seed = 0 /\ tables = NoTables /\ t_str = <<>>
          /\ delay_minutes = 0

Next ==
    \/ SynthStart
    \/ DrawCategories
    \/ DrawOnTime
    \/ DrawSmall
    \/ DrawBig
    \/ DrawEarly
    \/ RoundDelays
    \/ DrawReasons
    \/ ComputeActualAndReturn
    \/ CallAgain
    \/ HeadwayConvert
    \/ HeadwaySortDiff
    \/ HeadwayAggregate
    \/ build_delay_route_kpis
    \/ ApplyAddDelay
    \/ FormatSeconds
    \/ ParseRendered

Spec == Init /\ [][Next]_vars

(***************************************************************************)
(* Properties.                                                             *)
(***************************************************************************)
SynthReturned == IsSynth /\ pc = "done" /\ status = "ok"

KindRank(kind) ==
    CASE kind = "category" -> 1
      [] kind = "magnitude" -> 2
      [] kind = "reason" -> 3

CategoryRank(cat) == CHOOSE k \in 1..4 : CategoryNames[k] = cat

\* C1 as stated: the draws are taken event by event, in input order: the
\* category, magnitude and reason draw of event i all come before any draw
\* of a later event j.
C1_DrawsEventByEvent ==
    \A p, q \in 1..Len(drawLog) :
        p < q =>
            \/ drawLog[p].event < drawLog[q].event
            \/ /\ drawLog[p].event = drawLog[q].event
               /\ KindRank(drawLog[p].kind) < KindRank(drawLog[q].kind)

\* The place of a draw in the batched order: the phase, then (for a
\* magnitude) the category batch, then the input position.
BatchRank(d) ==
    <<KindRank(d.kind),
      IF d.kind = "magnitude" THEN CategoryRank(categories[d.event]) ELSE 0,
      d.event>>

\* C1 amended: the draws are taken in batches: the category draws of all
\* events in input order, then the magnitude draws one category at a time
\* (on_time, small_delay, big_delay, early; input order inside a category),
\* then the reason draws of all events in input order; a returned run has
\* taken exactly one draw of each kind per event.
C1_DrawsInBatches ==
    IsSynth =>
        /\ \A p, q \in 1..Len(drawLog) :
               p < q => KeyLess(BatchRank(drawLog[p]), BatchRank(drawLog[q]))
        /\ SynthReturned =>
               \A i \in 1..Len(df) : \A kind \in {"category", "magnitude", "reason"} :
                   Cardinality({p \in 1..Len(drawLog) :
                       drawLog[p] = [event |-> i, kind |-> kind]}) = 1

\* Witness: a returned run of two events in which the second event's
\* magnitude was drawn before the first event's.
C1_Witness ==
    /\ SynthReturned
    /\ Len(df) = 2
    /\ \E p, q \in 1..Len(drawLog) :
           /\ p < q
           /\ drawLog[p] = [event |-> 2, kind |-> "magnitude"]
           /\ drawLog[q] = [event |-> 1, kind |-> "magnitude"]

\* C2: two calls of generate_delays on the same sample, with the same seed
\* and service date, return the same rows, field for field, in the same order.
C2_Deterministic ==
    (IsSynth /\ run = 2 /\ pc = "done") => (status = "ok" /\ df_out = first_out)

\* Witness: the second call has returned two rows with different delays.
C2_Witness ==
    /\ SynthReturned /\ run = 2
    /\ Len(df_out) = 2
    /\ df_out[1].delay_min # df_out[2].delay_min
    /\ df_out[1].reason # df_out[2].reason

InBand(cat, d) ==
    CASE cat = "on_time" -> d \in (0 - 2)..3
      [] cat = "small_delay" -> d \in 1..5
      [] cat = "big_delay" -> d \in 5..20
      [] cat = "early" -> d \in (0 - 5)..(0 - 1)

\* C3: once rounded, the delay_min of every event is an integer inside the
\* band of the category drawn for that event.
C3_DelayInCategoryBand ==
    (IsSynth /\ delay_min # <<>>) =>
        /\ Len(delay_min) = Len(categories)
        /\ \A i \in 1..Len(delay_min) :
               delay_min[i] \in Int /\ InBand(categories[i], delay_min[i])

\* Witness: an on_time event stored at the upper end of its band (the value
\* np.clip leaves for a variate above 3), next to an event of another category.
C3_Witness ==
    /\ SynthReturned
    /\ \E i, j \in 1..Len(delay_min) :
           /\ categories[i] = "on_time" /\ delays[i] = 30 /\ delay_min[i] = 3
           /\ categories[j] = "early" /\ delay_min[j] < 0

\* What add_delay_to_time must return for a planned time of p seconds and a
\* delay of d minutes: a string of three colon-separated fields, two-digit
\* minutes and seconds below 60, hours of two digits or more without
\* padding beyond two, which reads back as max(0, p + 60 d) seconds.
IsRenderingOf(str, p, d) ==
    LET f == Split(str, ":")
    IN  /\ Len(f) = 3
        /\ \A k \in 1..3 : f[k] # <<>> /\ \A i \in 1..Len(f[k]) : IsDigit(f[k][i])
        /\ Len(f[1]) >= 2 /\ (Len(f[1]) > 2 => f[1][1] # "0")
        /\ Len(f[2]) = 2 /\ DigitsValue(f[2]) < 60
        /\ Len(f[3]) = 2 /\ DigitsValue(f[3]) < 60
        /\ DigitsValue(f[1]) * 3600 + DigitsValue(f[2]) * 60 + DigitsValue(f[3])
               = Max(0, p + 60 * d)

\* C4: for a planned arrival that parses and any integer delay,
\* add_delay_to_time returns the HH:MM:SS rendering of
\* max(0, toSeconds(planned) + 60 * delay): never negative, hours not reduced
\* modulo 24; and every row generate_delays returns carries the unclamped
\* delay_min of its event with the actual_arrival computed from it.
C4_ActualArrivalClamped ==
    /\ (IsAddDelay /\ pc = "done" /\ time_to_seconds(t_str).ok) =>
           /\ status = "ok"
           /\ IsRenderingOf(rendered, time_to_seconds(t_str).val, delay_minutes)
    /\ SynthReturned =>
           /\ Len(df_out) = Len(df)
           /\ \A r \in 1..Len(df_out) :
                  IsRenderingOf(df_out[r].actual_arrival,
                                time_to_seconds(df_out[r].planned_arrival).val,
                                df_out[r].delay_min)
           /\ \A i \in 1..Len(df) : \E r \in 1..Len(df_out) :
                  /\ df_out[r].trip_id = df[i].trip_id
                  /\ df_out[r].stop_id = df[i].stop_id
                  /\ df_out[r].planned_arrival = df[i].arrival_time
                  /\ df_out[r].delay_min = np_round(delays[i])

\* Witness: planned 00:02:00 with a delay of -10 minutes gave 00:00:00.
C4_Witness ==
    /\ IsAddDelay /\ pc = "done" /\ status = "ok"
    /\ t_str = T_000200 /\ delay_minutes = 0 - 10
    /\ rendered = T_000000

Categories == {CategoryNames[k] : k \in 1..4}

Vocabulary(cat) ==
    CASE cat = "on_time" -> {"on_time"}
      [] cat = "small_delay" -> {"vehicle_late", "connection_wait"}
      [] cat = "big_delay" -> {"signal_failure", "infrastructure_issue", "congestion"}
      [] cat = "early" -> {"early_departure"}

\* C5 as stated: a category can be inferred from delay_min alone (one
\* category per delay_min value, whose band contains it) and every row's
\* reason belongs to the vocabulary of the category inferred for its delay_min.
C5_ReasonFromDelayMinAlone ==
    SynthReturned =>
        \E infer \in [{df_out[r].delay_min : r \in 1..Len(df_out)} -> Categories] :
            \A r \in 1..Len(df_out) :
                /\ InBand(infer[df_out[r].delay_min], df_out[r].delay_min)
                /\ df_out[r].reason \in Vocabulary(infer[df_out[r].delay_min])

\* C5 amended: every event's reason belongs to the vocabulary of the category
\* drawn for it, and its delay_min lies in that category's band; so every
\* returned row's reason belongs to the vocabulary of one of the categories
\* whose band contains its delay_min (the bands overlap, so delay_min alone
\* does not determine which).
C5_ReasonFromDrawnCategory ==
    /\ (IsSynth /\ reasons # <<>>) =>
           \A i \in 1..Len(reasons) :
               /\ reasons[i] \in Vocabulary(categories[i])
               /\ InBand(categories[i], delay_min[i])
    /\ SynthReturned =>
           \A r \in 1..Len(df_out) : \E cat \in Categories :
               /\ InBand(cat, df_out[r].delay_min)
               /\ df_out[r].reason \in Vocabulary(cat)

\* Witness: two returned rows with the same delay_min and reasons of
\* different categories.
C5_Witness ==
    /\ SynthReturned
    /\ \E r, q \in 1..Len(df_out) :
           /\ df_out[r].delay_min = df_out[q].delay_min
           /\ df_out[r].reason = "on_time"
           /\ df_out[q].reason \in Vocabulary("small_delay")

\* C8: formatting a non-negative seconds value as add_delay_to_time does and
\* parsing the string with time_to_seconds gives the value back.
C8_RoundTrip ==
    (IsRoundTrip /\ pc = "done") => (status = "ok" /\ parsed = sec_actual)

\* Witness: a value past 24 hours with a three-digit hour field went round.
C8_Witness ==
    /\ IsRoundTrip /\ pc = "done"
    /\ sec_actual >= 100 * 3600
    /\ Len(rendered) = 9
    /\ parsed = sec_actual

HeadwayComputed == IsHeadway /\ pc \in {"agg", "done"} /\ status # "error"

\* The input positions of one (route, stop) group, and the observations
\* attributed to it.
GroupEvents(r, st) == {i \in 1..Len(df) : df[i].route_id = r /\ df[i].stop_id = st}

GroupObs(r, st) ==
    {k \in 1..Len(headways) : headways[k].route_id = r /\ headways[k].stop_id = st}

RECURSIVE SumGaps(_)
SumGaps(K) ==
    IF K = {} THEN 0
    ELSE LET k == CHOOSE x \in K : TRUE
         IN  headways[k].gap_seconds + SumGaps(K \ {k})

\* C6: a (route_id, stop_id) group of n events yields n - 1 observations
\* (none for n <= 1); each is the difference of two events of that group that
\* are adjacent in ascending time order, so it is >= 0 and the gaps of a group
\* add up to its time span; no observation joins two groups.  The times
\* 00:00:00, 00:10:00, 00:25:00 on one (route, stop) give 600 and 900 seconds
\* and an avg_headway_min of 12.5.
C6_HeadwayObservations ==
    HeadwayComputed =>
        /\ \A r \in 1..2, st \in 1..2 :
               LET ev == GroupEvents(r, st)
                   ob == GroupObs(r, st)
               IN  /\ Cardinality(ob) = Max(0, Cardinality(ev) - 1)
                   /\ \A k \in ob :
                          /\ headways[k].gap_seconds >= 0
                          /\ \E i, j \in ev :
                                 /\ i # j
                                 /\ arrival_sec[i] <= arrival_sec[j]
                                 /\ headways[k].gap_seconds = arrival_sec[j] - arrival_sec[i]
                                 /\ \A m \in ev : ~(arrival_sec[i] < arrival_sec[m]
                                                    /\ arrival_sec[m] < arrival_sec[j])
                   /\ ob # {} =>
                          \E lo, hi \in ev :
                              /\ \A m \in ev : arrival_sec[lo] <= arrival_sec[m]
                                               /\ arrival_sec[m] <= arrival_sec[hi]
                              /\ SumGaps(ob) = arrival_sec[hi] - arrival_sec[lo]
        /\ ( /\ Len(df) = 3
             /\ \A i \in 1..3 : df[i].route_id = 1 /\ df[i].stop_id = 1
             /\ {df[i].arrival_time : i \in 1..3} = {T_000000, T_001000, T_002500} ) =>
               /\ [k \in 1..Len(headways) |-> headways[k].gap_seconds] = <<600, 900>>
               /\ pc = "done" =>
                      \E row \in headway_stats :
                          /\ headway_stats = {row}
                          /\ row.route_id = 1
                          /\ row.n_headways = 2
                          /\ 10 * row.avg_headway_min[1] = 125 * row.avg_headway_min[2]

\* Witness: the three times, given out of order, were processed.
C6_Witness ==
    /\ IsHeadway /\ pc = "done" /\ status = "ok"
    /\ df = <<Row(1, 1, T_002500, 1), Row(1, 1, T_000000, 1), Row(1, 1, T_001000, 1)>>
    /\ \E row \in headway_stats : row.avg_headway_min = <<1500, 120>>

\* C7: compute_headway_stats returns a row for route r exactly when some
\* (r, stop) group has two or more events; every row has n_headways >= 1 and
\* there is one row per such route; a route with only single-event groups is
\* absent; zero input events return an empty frame, not an error.
C7_RouteRowIffMultiEventGroup ==
    (IsHeadway /\ pc = "done" /\ \A i \in 1..Len(df) : headway_time_to_seconds(df[i].arrival_time).ok) =>
        /\ status = "ok"
        /\ \A r \in 1..2 :
               (\E row \in headway_stats : row.route_id = r)
                   <=> (\E st \in 1..2 : Cardinality(GroupEvents(r, st)) >= 2)
        /\ \A row \in headway_stats : row.n_headways >= 1 /\ row.route_id \in 1..2
        /\ \A a, b \in headway_stats : a.route_id = b.route_id => a = b
        /\ df = <<>> => headway_stats = {}

\* Witness: a route whose only group has a single event is absent from a
\* frame that holds a row for the other route.
C7_Witness ==
    /\ IsHeadway /\ pc = "done" /\ status = "ok"
    /\ Cardinality(GroupEvents(1, 2)) = 1
    /\ Cardinality(GroupEvents(2, 1)) = 2
    /\ {row.route_id : row \in headway_stats} = {2}

\* A time string that does not split into exactly three colon-separated
\* integer fields.
Malformed(t) ==
    LET f == Split(t, ":")
    IN  ~(Len(f) = 3 /\ \A k \in 1..3 : IsIntLiteral(f[k]))

\* C9: when any row of the batch has a malformed time string,
\* compute_headway_stats and generate_delays end in an error and return no
\* rows: the bad row is never skipped.
C9_FailFastOnMalformedTime ==
    ((IsHeadway \/ IsSynth) /\ \E i \in 1..Len(df) : Malformed(df[i].arrival_time)) =>
        /\ status # "ok"
        /\ headway_stats = {} /\ headways = <<>>
        /\ df_out = <<>>
        /\ pc = "done" => status = "error"

\* Witness: a batch with two well-formed events of one group and one
\* malformed row ended in an error.
C9_Witness ==
    /\ IsHeadway /\ pc = "done" /\ status = "error"
    /\ Len(df) = 3
    /\ Malformed(df[2].arrival_time)
    /\ ~Malformed(df[1].arrival_time) /\ ~Malformed(df[3].arrival_time)
    /\ SameGroup(df[1], df[3])

\* The route a trip belongs to, read from the trips table.
RouteOfTrip(tb, trip) ==
    {t.route_id : t \in {x \in tb.trips : x.trip_id = trip}}

\* The delay events joined to route r.
EventsOfRoute(tb, r) ==
    {i \in 1..Len(tb.delays) :
        r \in RouteOfTrip(tb, tb.delays[i].trip_id)
        /\ \E x \in tb.routes : x.route_id = r}

\* C10: every row build_delay_route_kpis returns has n_delay_events >= 1
\* equal to the number of delay events joined to its route, share_over_5min
\* = count(delay_min > 5) / n_delay_events and share_on_time_or_early =
\* count(delay_min <= 0) / n_delay_events; a route has a row exactly when it
\* has a joined delay event, so a route with none is omitted.
C10_DelayRouteKpis ==
    (IsKpi /\ pc = "done") =>
        /\ \A row \in df_delay_route :
               LET ev == EventsOfRoute(tables, row.route_id)
                   n == Cardinality(ev)
               IN  /\ row.n_delay_events >= 1
                   /\ row.n_delay_events = n
                   /\ row.share_over_5min =
                          <<Cardinality({i \in ev : tables.delays[i].delay_min > 5}), n>>
                   /\ row.share_on_time_or_early =
                          <<Cardinality({i \in ev : tables.delays[i].delay_min <= 0}), n>>
        /\ \A x \in tables.routes :
               (\E row \in df_delay_route : row.route_id = x.route_id)
                   <=> (tables.has_delays /\ EventsOfRoute(tables, x.route_id) # {})
        /\ \A a, b \in df_delay_route : a.route_id = b.route_id => a = b

\* Witness: a route of the routes table without delay events is absent, and
\* a returned row counts one event above 5 minutes out of a 5 and a 6.
C10_Witness ==
    /\ IsKpi /\ pc = "done" /\ tables.has_delays
    /\ \E x \in tables.routes : \A row \in df_delay_route : row.route_id # x.route_id
    /\ \E row \in df_delay_route :
           /\ row.share_over_5min = <<1, 2>>
           /\ {tables.delays[i].delay_min : i \in EventsOfRoute(tables, row.route_id)} = {5, 6}

====
